---------------------------- MODULE Spec2Model ----------------------------
(***************************************************************************)
(* A model of the three metadata index backends (HashTableIndex,           *)
(* TwoThreeTree, BPlusTree), their tag index and their locking, as         *)
(* implemented in hashmap.py, twoThreeTree.py and bPlusTree.py.            *)
(*                                                                         *)
(* Filenames are modelled as the integers 1..n (their order stands for the *)
(* lexicographic order of the strings); a FileMetadata record keeps its    *)
(* filename, its file_id (which tells two records of one filename apart)   *)
(* and its tag list.                                                       *)
(***************************************************************************)
EXTENDS Integers, Sequences, FiniteSets, TLC

VARIABLES
    kind,       \* which backend the structure under test is: "hash", "ttt", "bpt"
    hseed,      \* Python's hash() of each filename (fixed for one process)
    gen,        \* the callers: [callers, names, taglists, inserts, keeps, counted]
    ht,         \* HashTableIndex: [capacity, load_factor, size, buckets]
    tt,         \* TwoThreeTree:   [root, size, height]
    bp,         \* BPlusTree:      [order, nodes, root, size, height]
    tag_index,  \* defaultdict(list): a function whose domain is the registered tags
    lock,       \* self.lock (RLock):     [owner, count]
    tag_lock,   \* self.tag_lock (RLock): [owner, count]
    th,         \* per thread: [op, pc, arg, held, tmp, ret]
    log,        \* history: the records stored so far, in the order they were stored
    budget,     \* calls (of the methods in gen.counted) the callers may still start
    kept        \* per thread: the list its last search_by_tag returned, if it keeps it

vars == <<kind, hseed, gen, ht, tt, bp, tag_index, lock, tag_lock, th, log, budget, kept>>

---------------------------------------------------------------------------
(* Bounds of the model *)

NumThreads == 2
NumNames == 3
MaxInserts == 3
DeepNames == 5
DeepInsertsTTT == 7
DeepInsertsBPT == 6
DeepInsertsHash == 4
DeepHashRange == 4
Order == 3
InitialCapacity == 1
SnapNames == 1
SnapInserts == 2

(* load_factor = 0.75 = LoadNum / LoadDen, the default of __init__ *)
LoadNum == 3
LoadDen == 4
DefaultLoad == <<LoadNum, LoadDen>>

\* a load_factor a caller may pass instead: 0.125
LowLoad == <<1, 8>>

Tags == {"work", "draft", "archive"}
TagLists == {<<"draft">>, <<"work", "draft">>}
Kinds == {"hash", "ttt", "bpt"}

---------------------------------------------------------------------------
(* Sequence helpers (Python list operations) *)

Min(S) == CHOOSE x \in S : \A y \in S : x <= y

Range(s) == {s[i] : i \in 1..Len(s)}

\* list.insert(j-1, x): x becomes the element at 1-based position j
InsertAt(s, j, x) == SubSeq(s, 1, j - 1) \o <<x>> \o SubSeq(s, j, Len(s))

ReplaceAt(s, j, x) == [s EXCEPT ![j] = x]

RECURSIVE Reverse(_)
Reverse(s) == IF s = <<>> THEN <<>> ELSE Reverse(Tail(s)) \o <<Head(s)>>

RECURSIVE Flatten(_)
Flatten(ss) == IF ss = <<>> THEN <<>> ELSE Head(ss) \o Flatten(Tail(ss))

\* FileMetadata(filename, ..., tags, ..., file_id)
FileMetadata(f, id, tags) == [filename |-> f, file_id |-> id, tags |-> tags]

---------------------------------------------------------------------------
(* HashTableIndex *)

\* [[] for _ in range(cap)]
RECURSIVE EmptyBuckets(_)
EmptyBuckets(cap) == IF cap = 0 THEN <<>> ELSE Append(EmptyBuckets(cap - 1), <<>>)

\* __init__(initial_capacity, load_factor); load_factor is <<numerator, denominator>>
HTNew(cap, lf) ==
    [capacity |-> cap, load_factor |-> lf, size |-> 0, buckets |-> EmptyBuckets(cap)]

\* _hash: hash(key) % self.capacity, a bucket index counted from 0
Hash(key, cap) == hseed[key] % cap

\* the position of the first entry of the bucket with this filename, or 0
BucketFind(bucket, f) ==
    LET hit == {i \in 1..Len(bucket) : bucket[i].filename = f}
    IN IF hit = {} THEN 0 ELSE Min(hit)

\* a put that never looks for the filename in the bucket
HTPutAppend(h, md) ==
    [h EXCEPT !.buckets[Hash(md.filename, h.capacity) + 1] = Append(@, md)]

\* _insert_no_lock up to the append: replace in place, or append
HTPut(h, md) ==
    LET b == Hash(md.filename, h.capacity) + 1
        i == BucketFind(h.buckets[b], md.filename)
    IN IF i # 0
       THEN [h EXCEPT !.buckets[b][i] = md]
       ELSE [h EXCEPT !.buckets[b] = Append(@, md)]

HTHas(h, f) == BucketFind(h.buckets[Hash(f, h.capacity) + 1], f) # 0

\* a load check that also fires when the load equals load_factor
HTLoadReached(h) == h.size * h.load_factor[2] >= h.load_factor[1] * h.capacity

\* self.size / self.capacity > self.load_factor
HTOverloaded(h) == h.size * h.load_factor[2] > h.load_factor[1] * h.capacity

RECURSIVE HTInsertNoLock(_, _), HTRehash(_, _)
\* the first entry of every chain that has one
RECURSIVE Heads(_)
Heads(ss) ==
    IF ss = <<>> THEN <<>>
    ELSE (IF Head(ss) = <<>> THEN <<>> ELSE <<Head(ss)[1]>>) \o Heads(Tail(ss))

\* a resize that reinserts only the first entry of each chain
HTResizeHeads(h) ==
    HTRehash(HTNew(2 * h.capacity, h.load_factor), Heads(h.buckets))

\* a resize that doubles the bucket array and leaves the chains where they are
HTResizeInPlace(h) ==
    [h EXCEPT !.capacity = 2 * @, !.buckets = @ \o EmptyBuckets(h.capacity)]

\* _resize: double the capacity, fresh buckets, size 0, reinsert every entry
HTResize(h) ==
    HTRehash(HTNew(2 * h.capacity, h.load_factor), Flatten(h.buckets))

HTRehash(h, mds) ==
    IF mds = <<>> THEN h
    ELSE HTRehash(HTInsertNoLock(h, Head(mds)), Tail(mds))

HTInsertNoLock(h, md) ==
    IF HTHas(h, md.filename) THEN HTPut(h, md)
    ELSE LET h1 == [HTPut(h, md) EXCEPT !.size = @ + 1]
         IN IF HTOverloaded(h1) THEN HTResize(h1) ELSE h1

\* a search that takes the first entry of the bucket for the one sought
HTSearchFirst(h, f) ==
    LET bucket == h.buckets[Hash(f, h.capacity) + 1]
    IN IF bucket = <<>> THEN <<>> ELSE <<bucket[1]>>

HTSearch(h, f) ==
    LET bucket == h.buckets[Hash(f, h.capacity) + 1]
        i == BucketFind(bucket, f)
    IN IF i = 0 THEN <<>> ELSE <<bucket[i]>>

\* list.sort(key=filename, reverse=desc): a stable sort
RECURSIVE SortInsert(_, _, _)
SortInsert(sorted, x, desc) ==
    IF sorted = <<>> THEN <<x>>
    ELSE LET y == Head(sorted)
             before == IF desc THEN x.filename > y.filename
                               ELSE x.filename < y.filename
         IN IF before THEN <<x>> \o sorted
            ELSE <<y>> \o SortInsert(Tail(sorted), x, desc)

RECURSIVE SortByFilename(_, _)
SortByFilename(s, desc) ==
    IF s = <<>> THEN <<>>
    ELSE SortInsert(SortByFilename(SubSeq(s, 1, Len(s) - 1), desc), s[Len(s)], desc)

HTListFiles(h, order) == SortByFilename(Flatten(h.buckets), order = "desc")

RECURSIVE MaxLen(_)
MaxLen(ss) ==
    IF Len(ss) = 1 THEN Len(ss[1])
    ELSE LET m == MaxLen(Tail(ss)) IN IF Len(ss[1]) > m THEN Len(ss[1]) ELSE m

\* get_stats; the two ratios are kept as <<numerator, denominator>>
HTStats(h) ==
    LET non_empty == Cardinality({i \in 1..Len(h.buckets) : h.buckets[i] # <<>>})
    IN [size |-> h.size, capacity |-> h.capacity,
        load_factor |-> <<h.size, h.capacity>>,
        non_empty_buckets |-> non_empty,
        max_chain_length |-> MaxLen(h.buckets),
        avg_chain_length |-> IF non_empty > 0 THEN <<h.size, non_empty>> ELSE <<0, 1>>]

---------------------------------------------------------------------------
(* TwoThreeTree.  A node is [keys, children]; tt.root is <<>> for None and *)
(* <<node>> otherwise.  The helpers mutate a node in place and return a    *)
(* carrier or None: here they return the node as mutated ("node") and the  *)
(* carrier ("up", <<>> for None).                                          *)

TTNode(keys, children) == [keys |-> keys, children |-> children]

TTNew == [root |-> <<>>, size |-> 0, height |-> 0]

TTIsLeaf(node) == Len(node.children) = 0

\* the first 1-based position whose key is greater than f, or 0
FirstGreater(keys, f) ==
    LET hit == {i \in 1..Len(keys) : f < keys[i].filename}
    IN IF hit = {} THEN 0 ELSE Min(hit)

\* a descent that always takes the last child
TTLastChildIndex(node, md) == Len(node.keys) + 1

\* _find_child_index, as a 1-based position
TTFindChildIndex(node, md) ==
    LET i == FirstGreater(node.keys, md.filename)
    IN IF i # 0 THEN i ELSE Len(node.keys) + 1

\* _split_node: left and right take keys 0 and 2, the carrier takes key 1
TTSplitNode(node) ==
    LET left  == TTNode(<<node.keys[1]>>,
                        IF TTIsLeaf(node) THEN <<>> ELSE SubSeq(node.children, 1, 2))
        right == TTNode(<<node.keys[3]>>,
                        IF TTIsLeaf(node) THEN <<>> ELSE SubSeq(node.children, 3, 4))
    IN TTNode(<<node.keys[2]>>, <<left, right>>)

\* a sorted insert that overwrites a key of the same filename
TTSortedUpsert(keys, md) ==
    LET hit == {i \in 1..Len(keys) : keys[i].filename = md.filename}
        i   == FirstGreater(keys, md.filename)
    IN IF hit # {} THEN ReplaceAt(keys, Min(hit), md)
       ELSE IF i # 0 THEN InsertAt(keys, i, md) ELSE Append(keys, md)

\* the keys of a node after a sorted insert of md (before the first greater key)
TTSortedInsert(keys, md) ==
    LET i == FirstGreater(keys, md.filename)
    IN IF i # 0 THEN InsertAt(keys, i, md) ELSE Append(keys, md)

\* _insert_into_node: sorted insert into a leaf, split at 3 keys
TTInsertIntoNode(node, md) ==
    LET n1 == [node EXCEPT !.keys = TTSortedInsert(node.keys, md)]
    IN [node |-> n1,
        up   |-> IF Len(n1.keys) = 3 THEN <<TTSplitNode(n1)>> ELSE <<>>]

\* an absorb that never splits the node it has filled
TTInsertIntoInternalNoSplit(node, middle_key, new_child, child_index) ==
    LET i  == FirstGreater(node.keys, middle_key.filename)
        n1 == IF i # 0
              THEN TTNode(InsertAt(node.keys, i, middle_key),
                          InsertAt(node.children, i + 1, new_child.children[2]))
              ELSE TTNode(Append(node.keys, middle_key),
                          Append(node.children, new_child.children[2]))
    IN [node |-> [n1 EXCEPT !.children[child_index] = new_child.children[1]],
        up   |-> <<>>]

\* _insert_into_internal: absorb the carrier of the child at child_index
TTInsertIntoInternal(node, middle_key, new_child, child_index) ==
    LET i  == FirstGreater(node.keys, middle_key.filename)
        n1 == IF i # 0
              THEN TTNode(InsertAt(node.keys, i, middle_key),
                          InsertAt(node.children, i + 1, new_child.children[2]))
              ELSE TTNode(Append(node.keys, middle_key),
                          Append(node.children, new_child.children[2]))
        n2 == [n1 EXCEPT !.children[child_index] = new_child.children[1]]
    IN [node |-> n2,
        up   |-> IF Len(n2.keys) = 3 THEN <<TTSplitNode(n2)>> ELSE <<>>]

RECURSIVE TTInsertHelper(_, _)
\* _insert_helper
TTInsertHelper(node, md) ==
    IF TTIsLeaf(node) THEN TTInsertIntoNode(node, md)
    ELSE LET child_index == TTFindChildIndex(node, md)
             r  == TTInsertHelper(node.children[child_index], md)
             n1 == [node EXCEPT !.children[child_index] = r.node]
         IN IF r.up # <<>>
            THEN TTInsertIntoInternal(n1, r.up[1].keys[1], r.up[1], child_index)
            ELSE [node |-> n1, up |-> <<>>]

\* insert, lines 45-53: the tree and its height; size is counted afterwards
TTStore(t, md) ==
    IF t.root = <<>>
    THEN [t EXCEPT !.root = <<TTNode(<<md>>, <<>>)>>, !.height = 1]
    ELSE LET r == TTInsertHelper(t.root[1], md)
         IN IF r.up # <<>>
            THEN [t EXCEPT !.root = r.up, !.height = @ + 1]
            ELSE [t EXCEPT !.root = <<r.node>>]

RECURSIVE TTSearchHelper(_, _)
\* _search_helper: <<>> for None
TTSearchHelper(node, f) ==
    LET hit == {i \in 1..Len(node.keys) : node.keys[i].filename = f}
    IN IF hit # {} THEN <<node.keys[Min(hit)]>>
       ELSE IF TTIsLeaf(node) THEN <<>>
       ELSE LET i == FirstGreater(node.keys, f)
            IN IF i # 0 THEN TTSearchHelper(node.children[i], f)
               ELSE TTSearchHelper(node.children[Len(node.children)], f)

TTSearch(t, f) == IF t.root = <<>> THEN <<>> ELSE TTSearchHelper(t.root[1], f)

RECURSIVE TTInorder(_), TTInorderFrom(_, _)
\* _inorder_traversal of a node
TTInorder(node) ==
    IF TTIsLeaf(node) THEN node.keys ELSE TTInorderFrom(node, 1)

\* the loop of _inorder_traversal from key i on, then the last child
TTInorderFrom(node, i) ==
    IF i > Len(node.keys) THEN TTInorder(node.children[Len(node.children)])
    ELSE TTInorder(node.children[i]) \o <<node.keys[i]>> \o TTInorderFrom(node, i + 1)

TTListFiles(t, order) ==
    LET result == IF t.root = <<>> THEN <<>> ELSE TTInorder(t.root[1])
    IN IF order = "desc" THEN Reverse(result) ELSE result

---------------------------------------------------------------------------
(* BPlusTree.  The nodes live in an arena: bp.nodes[n] is node n, and 0 is *)
(* None for next, parent and children.  A leaf's keys are records, an      *)
(* internal node's keys are filenames.                                     *)

BPNode(is_leaf) ==
    [is_leaf |-> is_leaf, keys |-> <<>>, children |-> <<>>, next |-> 0, parent |-> 0]

\* __init__: the root is an empty leaf and the height counter starts at 1
BPNew(order) ==
    [order |-> order, nodes |-> <<BPNode(TRUE)>>, root |-> 1, size |-> 0, height |-> 1]

RECURSIVE BPFindLeaf(_, _, _)
\* _find_leaf
BPFindLeaf(nodes, n, f) ==
    IF nodes[n].is_leaf THEN n
    ELSE LET hit == {i \in 1..Len(nodes[n].keys) : f < nodes[n].keys[i]}
         IN IF hit # {}
            THEN BPFindLeaf(nodes, nodes[n].children[Min(hit)], f)
            ELSE BPFindLeaf(nodes, nodes[n].children[Len(nodes[n].children)], f)

\* _insert_into_leaf: replace an equal filename, else sorted insert
BPInsertIntoLeaf(keys, md) ==
    LET hit == {i \in 1..Len(keys) : md.filename <= keys[i].filename}
    IN IF hit = {} THEN Append(keys, md)
       ELSE IF keys[Min(hit)].filename = md.filename
            THEN ReplaceAt(keys, Min(hit), md)
            ELSE InsertAt(keys, Min(hit), md)

\* "create new root" of _split_leaf and _split_internal
BPNewRoot(b, key, left, right) ==
    LET id == Len(b.nodes) + 1
        nr == [BPNode(FALSE) EXCEPT !.keys = <<key>>, !.children = <<left, right>>]
    IN [b EXCEPT !.nodes = Append([b.nodes EXCEPT ![left].parent = id,
                                                   ![right].parent = id], nr),
                 !.root = id,
                 !.height = @ + 1]

\* an internal split that leaves the parent of the moved children as it was
BPKeepParents(nodes, children, p) == nodes

\* new_child.parent = parent, for every child in the list
RECURSIVE BPSetParents(_, _, _)
BPSetParents(nodes, children, p) ==
    IF children = <<>> THEN nodes
    ELSE BPSetParents([nodes EXCEPT ![Head(children)].parent = p], Tail(children), p)

RECURSIVE BPInsertIntoParent(_, _, _, _), BPSplitInternal(_, _)
\* _insert_into_parent
BPInsertIntoParent(b, parent, key, new_child) ==
    LET p   == b.nodes[parent]
        hit == {i \in 1..Len(p.keys) : key < p.keys[i]}
        p1  == IF hit # {}
               THEN [p EXCEPT !.keys = InsertAt(@, Min(hit), key),
                              !.children = InsertAt(@, Min(hit) + 1, new_child)]
               ELSE [p EXCEPT !.keys = Append(@, key),
                              !.children = Append(@, new_child)]
        b1  == [b EXCEPT !.nodes = [b.nodes EXCEPT ![parent] = p1,
                                                   ![new_child].parent = parent]]
    IN IF Len(p1.keys) >= b.order THEN BPSplitInternal(b1, parent) ELSE b1

\* an internal split that leaves the pushed-up key in the right half
BPSplitInternalCopyUp(b, node) ==
    LET n    == b.nodes[node]
        mid  == Len(n.keys) \div 2
        push_up_key == n.keys[mid + 1]
        id   == Len(b.nodes) + 1
        new_node == [BPNode(FALSE) EXCEPT
                        !.keys = SubSeq(n.keys, mid + 1, Len(n.keys)),
                        !.children = SubSeq(n.children, mid + 1, Len(n.children))]
        n1   == [n EXCEPT !.keys = SubSeq(n.keys, 1, mid),
                          !.children = SubSeq(n.children, 1, mid + 1)]
        b1   == [b EXCEPT !.nodes =
                    BPSetParents(Append([b.nodes EXCEPT ![node] = n1], new_node),
                                 new_node.children, id)]
    IN IF n.parent = 0
       THEN BPNewRoot(b1, push_up_key, node, id)
       ELSE BPInsertIntoParent(b1, n.parent, push_up_key, id)

\* _split_internal
BPSplitInternal(b, node) ==
    LET n    == b.nodes[node]
        mid  == Len(n.keys) \div 2
        push_up_key == n.keys[mid + 1]
        id   == Len(b.nodes) + 1
        new_node == [BPNode(FALSE) EXCEPT
                        !.keys = SubSeq(n.keys, mid + 2, Len(n.keys)),
                        !.children = SubSeq(n.children, mid + 2, Len(n.children))]
        n1   == [n EXCEPT !.keys = SubSeq(n.keys, 1, mid),
                          !.children = SubSeq(n.children, 1, mid + 1)]
        b1   == [b EXCEPT !.nodes =
                    BPSetParents(Append([b.nodes EXCEPT ![node] = n1], new_node),
                                 new_node.children, id)]
    IN IF n.parent = 0
       THEN BPNewRoot(b1, push_up_key, node, id)
       ELSE BPInsertIntoParent(b1, n.parent, push_up_key, id)

\* a leaf split that does not hand the old successor on to the new leaf
BPSplitLeafUnlinked(b, leaf) ==
    LET l    == b.nodes[leaf]
        mid  == Len(l.keys) \div 2
        id   == Len(b.nodes) + 1
        new_leaf == [BPNode(TRUE) EXCEPT !.keys = SubSeq(l.keys, mid + 1, Len(l.keys))]
        l1   == [l EXCEPT !.keys = SubSeq(l.keys, 1, mid), !.next = id]
        push_up_key == new_leaf.keys[1].filename
        b1   == [b EXCEPT !.nodes = Append([b.nodes EXCEPT ![leaf] = l1], new_leaf)]
    IN IF l.parent = 0
       THEN BPNewRoot(b1, push_up_key, leaf, id)
       ELSE BPInsertIntoParent(b1, l.parent, push_up_key, id)

\* _split_leaf
BPSplitLeaf(b, leaf) ==
    LET l    == b.nodes[leaf]
        mid  == Len(l.keys) \div 2
        id   == Len(b.nodes) + 1
        new_leaf == [BPNode(TRUE) EXCEPT !.keys = SubSeq(l.keys, mid + 1, Len(l.keys)),
                                         !.next = l.next]
        l1   == [l EXCEPT !.keys = SubSeq(l.keys, 1, mid), !.next = id]
        push_up_key == new_leaf.keys[1].filename
        b1   == [b EXCEPT !.nodes = Append([b.nodes EXCEPT ![leaf] = l1], new_leaf)]
    IN IF l.parent = 0
       THEN BPNewRoot(b1, push_up_key, leaf, id)
       ELSE BPInsertIntoParent(b1, l.parent, push_up_key, id)

\* an insert that splits a leaf only when it holds more than order keys
BPStoreLate(b, md) ==
    LET leaf == BPFindLeaf(b.nodes, b.root, md.filename)
        b1   == [b EXCEPT !.nodes[leaf].keys = BPInsertIntoLeaf(@, md)]
    IN IF Len(b1.nodes[leaf].keys) > b.order THEN BPSplitLeaf(b1, leaf) ELSE b1

\* insert, lines 48-55: find the leaf, insert, split; size is counted afterwards
BPStore(b, md) ==
    LET leaf == BPFindLeaf(b.nodes, b.root, md.filename)
        b1   == [b EXCEPT !.nodes[leaf].keys = BPInsertIntoLeaf(@, md)]
    IN IF Len(b1.nodes[leaf].keys) >= b.order THEN BPSplitLeaf(b1, leaf) ELSE b1

\* search_by_filename: <<>> for None
BPSearch(b, f) ==
    LET keys == b.nodes[BPFindLeaf(b.nodes, b.root, f)].keys
        hit  == {i \in 1..Len(keys) : keys[i].filename = f}
    IN IF hit = {} THEN <<>> ELSE <<keys[Min(hit)]>>

RECURSIVE BPLeftmost(_, _), BPChain(_, _)
\* list_files: "while not node.is_leaf: node = node.children[0]"
BPLeftmost(nodes, n) ==
    IF nodes[n].is_leaf THEN n ELSE BPLeftmost(nodes, nodes[n].children[1])

\* list_files: "while node is not None: result.extend(node.keys); node = node.next"
BPChain(nodes, n) ==
    IF n = 0 THEN <<>> ELSE nodes[n].keys \o BPChain(nodes, nodes[n].next)

BPListFiles(b, order) ==
    LET result == BPChain(b.nodes, BPLeftmost(b.nodes, b.root))
    IN IF order = "desc" THEN Reverse(result) ELSE result

BPStats(b) == [size |-> b.size, height |-> b.height, order |-> b.order]

---------------------------------------------------------------------------
(* The structure under test, whichever backend it is *)

Size == CASE kind = "hash" -> ht.size [] kind = "ttt" -> tt.size [] OTHER -> bp.size

Height == IF kind = "ttt" THEN tt.height ELSE bp.height

\* search_by_filename's result on the current structure: <<>> for None
Search(f) ==
    CASE kind = "hash" -> HTSearch(ht, f)
      [] kind = "ttt"  -> TTSearch(tt, f)
      [] OTHER         -> BPSearch(bp, f)

\* list_files' result on the current structure
ListFiles(order) ==
    CASE kind = "hash" -> HTListFiles(ht, order)
      [] kind = "ttt"  -> TTListFiles(tt, order)
      [] OTHER         -> BPListFiles(bp, order)

\* self.tag_index.get(tag, []).copy()
TagGet(index, tag) == IF tag \in DOMAIN index THEN index[tag] ELSE <<>>

\* a lookup by subscript: the defaultdict stores [] for a tag it does not have
TagIndexAfterSubscript(index, tag) ==
    [x \in DOMAIN index \cup {tag} |-> TagGet(index, x)]

\* the tag index after self.tag_index.get(tag, []): get stores no default
TagIndexAfterGet(index, tag) == index

\* an append that overwrites the tag's entry of the same filename, if any
TagUpsert(index, tag, md) ==
    LET old == TagGet(index, tag)
        hit == {i \in 1..Len(old) : old[i].filename = md.filename}
    IN [x \in DOMAIN index \cup {tag} |->
           IF x # tag THEN index[x]
           ELSE IF hit = {} THEN Append(old, md) ELSE ReplaceAt(old, Min(hit), md)]

\* self.tag_index[tag].append(metadata): a defaultdict creates the missing list
TagAppend(index, tag, md) ==
    [x \in DOMAIN index \cup {tag} |->
        IF x = tag THEN Append(TagGet(index, tag), md) ELSE index[x]]

\* an insert that registers the record under its first tag only
TagAppendFirst(index, tags, md) ==
    IF tags = <<>> THEN index ELSE TagAppend(index, Head(tags), md)

\* A list a caller holds is the tag index's own list of a tag (shared) or a
\* list of its own with its items.
\* self.tag_index.get(tag, []) without the copy: the index's list, or a new []
ListAlias(index, tag) ==
    [shared |-> tag \in DOMAIN index, tag |-> tag, items |-> TagGet(index, tag)]

\* self.tag_index.get(tag, []).copy(): a new list with the same items
ListCopy(index, tag) ==
    [shared |-> FALSE, tag |-> tag, items |-> TagGet(index, tag)]

\* the items of a list a caller holds, as they are now
Items(list) == IF list.shared THEN TagGet(tag_index, list.tag) ELSE list.items

RECURSIVE TagAppendAll(_, _, _)
\* for tag in metadata.tags: self.tag_index[tag].append(metadata)
TagAppendAll(index, tags, md) ==
    IF tags = <<>> THEN index
    ELSE TagAppendAll(TagAppend(index, Head(tags), md), Tail(tags), md)

---------------------------------------------------------------------------
(* The two re-entrant locks of a structure *)

Free == [owner |-> 0, count |-> 0]

\* RLock.acquire returns at once for a free lock and for its owner, else blocks
CanAcquire(l, t) == l.owner \in {0, t}

Acquire(l, t) == [owner |-> t, count |-> l.count + 1]

\* leaving a with-statement without releasing its lock
ReleaseNot(l, t) == l

\* RLock.release: one level less, free at the outermost
Release(l, t) == IF l.count <= 1 THEN Free ELSE [l EXCEPT !.count = @ - 1]

LockNamed(n) == IF n = "primary" THEN lock ELSE tag_lock

\* a tag search that takes the primary lock inside the tag lock
TagThenPrimaryLocks == <<"tag", "primary">>

\* the with-statements around each public method's body, outermost first
InsertLocks == <<"primary">>
SearchByFilenameLocks == <<"primary">>
SearchByTagLocks == <<"tag">>
ListFilesLocks == <<"primary">>
GetSizeLocks == <<"primary">>
GetHeightLocks == <<"primary">>
GetCapacityLocks == <<"primary">>
GetStatsLocks == <<"primary">>

Locks(op) ==
    CASE op = "insert"             -> InsertLocks
      [] op = "search_by_filename" -> SearchByFilenameLocks
      [] op = "search_by_tag"      -> SearchByTagLocks
      [] op = "list_files"         -> ListFilesLocks
      [] op = "get_size"           -> GetSizeLocks
      [] op = "get_height"         -> GetHeightLocks
      [] op = "get_capacity"       -> GetCapacityLocks
      [] op = "get_stats"          -> GetStatsLocks
      [] OTHER                     -> <<>>

---------------------------------------------------------------------------
(* Threads.  th[t].pc is the step thread t takes next:                     *)
(*   "idle"  between calls;  "lock"  entering the with-statements of the   *)
(*   method (held of them are entered);  "body"  a read method's body;     *)
(*   "store", "size_load", "size_store", "resize", "tag_lock", "tags"      *)
(*   insert's steps;  "unlock"  leaving the with-statements and returning. *)

Threads == 1..NumThreads

IdleThread == [op |-> "none", pc |-> "idle", arg |-> <<>>, held |-> 0,
               tmp |-> 0, ret |-> <<>>]

Goto(t, pc) == th' = [th EXCEPT ![t].pc = pc]

\* a caller starts a method; what it passes is drawn when the body runs
Call(t, op) ==
    /\ t \in gen.callers
    /\ th[t].pc = "idle"
    /\ op \in gen.counted => budget > 0
    /\ budget' = IF op \in gen.counted THEN budget - 1 ELSE budget
    /\ th' = [th EXCEPT ![t] = [IdleThread EXCEPT !.op = op, !.pc = "lock"]]

InsertCall(t) ==
    /\ Call(t, "insert")
    /\ UNCHANGED <<kind, hseed, gen, ht, tt, bp, tag_index, lock, tag_lock, log, kept>>

SearchByFilenameCall(t) ==
    /\ Call(t, "search_by_filename")
    /\ UNCHANGED <<kind, hseed, gen, ht, tt, bp, tag_index, lock, tag_lock, log, kept>>

SearchByTagCall(t) ==
    /\ Call(t, "search_by_tag")
    /\ UNCHANGED <<kind, hseed, gen, ht, tt, bp, tag_index, lock, tag_lock, log, kept>>

ListFilesCall(t) ==
    /\ Call(t, "list_files")
    /\ UNCHANGED <<kind, hseed, gen, ht, tt, bp, tag_index, lock, tag_lock, log, kept>>

GetSizeCall(t) ==
    /\ Call(t, "get_size")
    /\ UNCHANGED <<kind, hseed, gen, ht, tt, bp, tag_index, lock, tag_lock, log, kept>>

\* only the trees have get_height
GetHeightCall(t) ==
    /\ kind \in {"ttt", "bpt"}
    /\ Call(t, "get_height")
    /\ UNCHANGED <<kind, hseed, gen, ht, tt, bp, tag_index, lock, tag_lock, log, kept>>

\* only the hash table has get_capacity
GetCapacityCall(t) ==
    /\ kind = "hash"
    /\ Call(t, "get_capacity")
    /\ UNCHANGED <<kind, hseed, gen, ht, tt, bp, tag_index, lock, tag_lock, log, kept>>

\* the hash table and the B+ tree have get_stats
GetStatsCall(t) ==
    /\ kind \in {"hash", "bpt"}
    /\ Call(t, "get_stats")
    /\ UNCHANGED <<kind, hseed, gen, ht, tt, bp, tag_index, lock, tag_lock, log, kept>>

\* "with self.lock:" / "with self.tag_lock:": enter the next with-statement of
\* the method, blocking while another thread owns its lock
EnterLock(t) ==
    LET want == Locks(th[t].op)
        n    == want[th[t].held + 1]
        pc   == IF th[t].held + 1 < Len(want) THEN "lock"
                ELSE IF th[t].op = "insert" THEN "store" ELSE "body"
    IN /\ th[t].pc = "lock"
       /\ th[t].held < Len(want)
       /\ CanAcquire(LockNamed(n), t)
       /\ IF n = "primary"
          THEN lock' = Acquire(lock, t) /\ UNCHANGED tag_lock
          ELSE tag_lock' = Acquire(tag_lock, t) /\ UNCHANGED lock
       /\ th' = [th EXCEPT ![t].held = @ + 1, ![t].pc = pc]
       /\ UNCHANGED <<kind, hseed, gen, ht, tt, bp, tag_index, log, budget, kept>>


RECURSIVE ReleaseAll(_, _, _, _)
\* the lock named n after thread t has left the with-statements in names
ReleaseAll(l, n, names, t) ==
    IF names = <<>> THEN l
    ELSE ReleaseAll(IF Head(names) = n THEN Release(l, t) ELSE l, n, Tail(names), t)

\* leave the method's with-statements (innermost first) and return
LeaveLocks(t) ==
    /\ th[t].pc = "unlock"
    /\ lock' = ReleaseAll(lock, "primary", Locks(th[t].op), t)
    /\ tag_lock' = ReleaseAll(tag_lock, "tag", Locks(th[t].op), t)
    /\ th' = [th EXCEPT ![t] = IdleThread]
    /\ UNCHANGED <<kind, hseed, gen, ht, tt, bp, tag_index, log, budget, kept>>

---------------------------------------------------------------------------
(* insert(metadata) *)

\* hashmap.py 40-50, twoThreeTree.py 45-53, bPlusTree.py 48-55: the record the
\* caller passed (its file_id numbers the records in the order they are
\* stored) goes into the structure; the hash table returns early on a
\* replacement
InsertStore(t) ==
    /\ th[t].pc = "store"
    /\ \E f \in gen.names, tags \in gen.taglists :
          LET md == FileMetadata(f, Len(log) + 1, tags)
          IN /\ CASE kind = "hash" ->
                       /\ ht' = HTPut(ht, md)
                       /\ th' = [th EXCEPT ![t].arg = md,
                                           ![t].pc = IF HTHas(ht, f) THEN "tag_lock"
                                                     ELSE "size_load"]
                       /\ UNCHANGED <<tt, bp>>
                  [] kind = "ttt" ->
                       /\ tt' = TTStore(tt, md)
                       /\ th' = [th EXCEPT ![t].arg = md, ![t].pc = "size_load"]
                       /\ UNCHANGED <<ht, bp>>
                  [] OTHER ->
                       /\ bp' = BPStore(bp, md)
                       /\ th' = [th EXCEPT ![t].arg = md, ![t].pc = "size_load"]
                       /\ UNCHANGED <<ht, tt>>
             /\ log' = Append(log, md)
    /\ UNCHANGED <<kind, hseed, gen, tag_index, lock, tag_lock, budget, kept>>

\* self.size += 1 reads self.size ...
InsertSizeLoad(t) ==
    /\ th[t].pc = "size_load"
    /\ th' = [th EXCEPT ![t].tmp = Size, ![t].pc = "size_store"]
    /\ UNCHANGED <<kind, hseed, gen, ht, tt, bp, tag_index, lock, tag_lock, log, budget, kept>>

\* ... and writes it back, one more
InsertSizeStore(t) ==
    /\ th[t].pc = "size_store"
    /\ CASE kind = "hash" ->
              /\ ht' = [ht EXCEPT !.size = th[t].tmp + 1]
              /\ Goto(t, "resize")
              /\ UNCHANGED <<tt, bp>>
         [] kind = "ttt" ->
              /\ tt' = [tt EXCEPT !.size = th[t].tmp + 1]
              /\ Goto(t, "tag_lock")
              /\ UNCHANGED <<ht, bp>>
         [] OTHER ->
              /\ bp' = [bp EXCEPT !.size = th[t].tmp + 1]
              /\ Goto(t, "tag_lock")
              /\ UNCHANGED <<ht, tt>>
    /\ UNCHANGED <<kind, hseed, gen, tag_index, lock, tag_lock, log, budget, kept>>

\* hashmap.py 54-55: if self.size / self.capacity > self.load_factor: self._resize()
InsertResize(t) ==
    /\ th[t].pc = "resize"
    /\ ht' = IF HTOverloaded(ht) THEN HTResize(ht) ELSE ht
    /\ Goto(t, "tag_lock")
    /\ UNCHANGED <<kind, hseed, gen, tt, bp, tag_index, lock, tag_lock, log, budget, kept>>

\* "with self.tag_lock:" inside "with self.lock:"
InsertTagLock(t) ==
    /\ th[t].pc = "tag_lock"
    /\ CanAcquire(tag_lock, t)
    /\ tag_lock' = Acquire(tag_lock, t)
    /\ Goto(t, "tags")
    /\ UNCHANGED <<kind, hseed, gen, ht, tt, bp, tag_index, lock, log, budget, kept>>

\* the loop over metadata.tags, and the end of "with self.tag_lock:"
InsertTags(t) ==
    /\ th[t].pc = "tags"
    /\ tag_index' = TagAppendAll(tag_index, th[t].arg.tags, th[t].arg)
    /\ tag_lock' = Release(tag_lock, t)
    /\ Goto(t, "unlock")
    /\ UNCHANGED <<kind, hseed, gen, ht, tt, bp, lock, log, budget, kept>>

---------------------------------------------------------------------------
(* The read methods: the body runs inside the with-statements and its     *)
(* result is held in ret until the method returns.                        *)

Return(t, arg, value) ==
    th' = [th EXCEPT ![t].arg = arg, ![t].ret = value, ![t].pc = "unlock"]

SearchByFilename(t) ==
    /\ th[t].pc = "body" /\ th[t].op = "search_by_filename"
    /\ \E f \in gen.names : Return(t, f, Search(f))
    /\ UNCHANGED <<kind, hseed, gen, ht, tt, bp, tag_index, lock, tag_lock, log, budget, kept>>

\* return self.tag_index.get(tag, []).copy(): the result is a new list
SearchByTag(t) ==
    /\ th[t].pc = "body" /\ th[t].op = "search_by_tag"
    /\ \E tag \in Tags :
          LET result == ListCopy(tag_index, tag)
          IN /\ Return(t, tag, result.items)
             /\ kept' = IF gen.keeps THEN [kept EXCEPT ![t] = <<result>>] ELSE kept
             /\ tag_index' = TagIndexAfterGet(tag_index, tag)
    /\ UNCHANGED <<kind, hseed, gen, ht, tt, bp, lock, tag_lock, log, budget>>

\* the caller empties the list it was given (result.clear())
CallerEdits(t) ==
    /\ th[t].pc = "idle"
    /\ kept[t] # <<>>
    /\ Items(kept[t][1]) # <<>>
    /\ IF kept[t][1].shared
       THEN /\ tag_index' = [tag_index EXCEPT ![kept[t][1].tag] = <<>>]
            /\ UNCHANGED kept
       ELSE /\ kept' = [kept EXCEPT ![t][1].items = <<>>]
            /\ UNCHANGED tag_index
    /\ UNCHANGED <<kind, hseed, gen, ht, tt, bp, lock, tag_lock, th, log, budget>>

ListFilesBody(t) ==
    /\ th[t].pc = "body" /\ th[t].op = "list_files"
    /\ \E order \in {"asc", "desc"} : Return(t, order, ListFiles(order))
    /\ UNCHANGED <<kind, hseed, gen, ht, tt, bp, tag_index, lock, tag_lock, log, budget, kept>>

GetSize(t) ==
    /\ th[t].pc = "body" /\ th[t].op = "get_size"
    /\ Return(t, <<>>, Size)
    /\ UNCHANGED <<kind, hseed, gen, ht, tt, bp, tag_index, lock, tag_lock, log, budget, kept>>

GetHeight(t) ==
    /\ th[t].pc = "body" /\ th[t].op = "get_height"
    /\ Return(t, <<>>, Height)
    /\ UNCHANGED <<kind, hseed, gen, ht, tt, bp, tag_index, lock, tag_lock, log, budget, kept>>

GetCapacity(t) ==
    /\ th[t].pc = "body" /\ th[t].op = "get_capacity"
    /\ Return(t, <<>>, ht.capacity)
    /\ UNCHANGED <<kind, hseed, gen, ht, tt, bp, tag_index, lock, tag_lock, log, budget, kept>>

GetStats(t) ==
    /\ th[t].pc = "body" /\ th[t].op = "get_stats"
    /\ Return(t, <<>>, IF kind = "hash" THEN HTStats(ht) ELSE BPStats(bp))
    /\ UNCHANGED <<kind, hseed, gen, ht, tt, bp, tag_index, lock, tag_lock, log, budget, kept>>

---------------------------------------------------------------------------
(* Specifications *)

\* the trees never hash
NoHashes(names) == {[f \in names |-> 0]}

\* hash values that spread the names over the buckets, and that all collide
SomeHashes(names) == {[f \in names |-> f], [f \in names |-> 0]}

\* a fresh structure of one kind and its callers
Start(callers, names, taglists, hashes, orders, loads, inserts, keeps, counted) ==
    /\ hseed \in hashes
    /\ gen = [callers |-> callers, names |-> names, taglists |-> taglists,
              inserts |-> inserts, keeps |-> keeps, counted |-> counted]
    /\ kept = [t \in Threads |-> <<>>]
    /\ ht \in {HTNew(InitialCapacity, lf) : lf \in loads}
    /\ tt = TTNew
    /\ bp \in {BPNew(order) : order \in orders}
    /\ tag_index = <<>>
    /\ lock = Free
    /\ tag_lock = Free
    /\ th = [t \in Threads |-> IdleThread]
    /\ log = <<>>
    /\ budget = inserts

\* several threads share one structure and call any of its methods
Init ==
    /\ kind \in Kinds
    /\ Start(Threads, 1..NumNames, TagLists,
             IF kind = "hash" THEN SomeHashes(1..NumNames) ELSE NoHashes(1..NumNames),
             {Order}, {DefaultLoad}, MaxInserts, FALSE, {"insert"})

Next ==
    \E t \in Threads :
        \/ InsertCall(t)
        \/ EnterLock(t)
        \/ InsertStore(t)
        \/ InsertSizeLoad(t)
        \/ InsertSizeStore(t)
        \/ InsertResize(t)
        \/ InsertTagLock(t)
        \/ InsertTags(t)
        \/ LeaveLocks(t)
        \/ SearchByFilenameCall(t)
        \/ SearchByTagCall(t)
        \/ ListFilesCall(t)
        \/ GetSizeCall(t)
        \/ GetHeightCall(t)
        \/ GetCapacityCall(t)
        \/ GetStatsCall(t)
        \/ SearchByFilename(t)
        \/ SearchByTag(t)
        \/ ListFilesBody(t)
        \/ GetSize(t)
        \/ GetHeight(t)
        \/ GetCapacity(t)
        \/ GetStats(t)

Spec == Init /\ [][Next]_vars

\* one caller inserts a longer run of untagged records
InitDeep ==
    /\ kind \in Kinds
    /\ CASE kind = "hash" ->
              Start({1}, 1..NumNames, {<<>>},
                    [1..NumNames -> 0..(DeepHashRange - 1)], {Order}, {DefaultLoad},
                    DeepInsertsHash, FALSE, {"insert"})
         [] kind = "ttt" ->
              Start({1}, 1..DeepNames, {<<>>}, NoHashes(1..DeepNames), {Order},
                    {DefaultLoad}, DeepInsertsTTT, FALSE, {"insert"})
         [] OTHER ->
              Start({1}, 1..DeepNames, {<<>>}, NoHashes(1..DeepNames), {Order, Order + 1},
                    {DefaultLoad}, DeepInsertsBPT, FALSE, {"insert"})

NextDeep ==
    \E t \in Threads :
        \/ InsertCall(t)
        \/ EnterLock(t)
        \/ InsertStore(t)
        \/ InsertSizeLoad(t)
        \/ InsertSizeStore(t)
        \/ InsertResize(t)
        \/ InsertTagLock(t)
        \/ InsertTags(t)
        \/ LeaveLocks(t)

SpecDeep == InitDeep /\ [][NextDeep]_vars

\* threads insert tagged records and search by tag; a caller keeps the list a
\* search returned and may empty it
InitSnap ==
    /\ kind \in Kinds
    /\ Start(Threads, 1..SnapNames, TagLists,
             IF kind = "hash" THEN SomeHashes(1..SnapNames) ELSE NoHashes(1..SnapNames),
             {Order}, {DefaultLoad}, SnapInserts, TRUE, {"insert"})

NextSnap ==
    \E t \in Threads :
        \/ InsertCall(t)
        \/ EnterLock(t)
        \/ InsertStore(t)
        \/ InsertSizeLoad(t)
        \/ InsertSizeStore(t)
        \/ InsertResize(t)
        \/ InsertTagLock(t)
        \/ InsertTags(t)
        \/ LeaveLocks(t)
        \/ SearchByTagCall(t)
        \/ SearchByTag(t)
        \/ CallerEdits(t)

SpecSnap == InitSnap /\ [][NextSnap]_vars

\* tag lists as a caller may build them: FileMetadata.tags is a plain list,
\* which may name one tag twice
RepeatedTagLists == {<<"work", "work">>, <<"draft">>}

\* threads insert records whose tag list may repeat a tag, and search by tag
InitTags ==
    /\ kind \in Kinds
    /\ Start(Threads, 1..SnapNames, RepeatedTagLists,
             IF kind = "hash" THEN SomeHashes(1..SnapNames) ELSE NoHashes(1..SnapNames),
             {Order}, {DefaultLoad}, SnapInserts, TRUE, {"insert"})

SpecTags == InitTags /\ [][NextSnap]_vars

\* one caller inserts into a hash table built with a low load_factor
InitLoad ==
    /\ kind = "hash"
    /\ Start({1}, 1..NumNames, {<<>>}, [1..NumNames -> 0..(DeepHashRange - 1)],
             {Order}, {LowLoad}, DeepInsertsHash, FALSE, {"insert"})

SpecLoad == InitLoad /\ [][NextDeep]_vars

---------------------------------------------------------------------------
(* What the claims speak of *)

\* no thread is inside a method that holds the primary lock: the structure is
\* as every caller sees it
Quiet == lock.owner = 0

AllIdle == \A t \in Threads : th[t].pc = "idle"

LogNames == {log[i].filename : i \in 1..Len(log)}

\* the record most recently stored under filename f
Latest(f) ==
    log[CHOOSE i \in 1..Len(log) :
            /\ log[i].filename = f
            /\ \A j \in (i + 1)..Len(log) : log[j].filename # f]

StrictlyIncreasing(s) == \A i \in 1..(Len(s) - 1) : s[i].filename < s[i + 1].filename

NonDecreasing(s) == \A i \in 1..(Len(s) - 1) : s[i].filename <= s[i + 1].filename

RECURSIVE SumLen(_)
SumLen(ss) == IF ss = <<>> THEN 0 ELSE Len(Head(ss)) + SumLen(Tail(ss))

---------------------------------------------------------------------------
(* C1: for each backend, after any inserts (re-inserts of a stored filename *)
(* included), list_files('asc') is strictly increasing by filename and      *)
(* list_files('desc') is its exact reverse.                                 *)
C1_ListStrictlyOrdered ==
    Quiet => /\ StrictlyIncreasing(ListFiles("asc"))
             /\ ListFiles("desc") = Reverse(ListFiles("asc"))

(* C2: for every backend, search_by_filename(f) of an inserted filename f  *)
(* returns the record most recently inserted under f.                      *)
C2_SearchReturnsLatest ==
    Quiet => \A f \in LogNames : Search(f) = <<Latest(f)>>

(* C3: B+ tree: a re-insert replaces the stored record and leaves          *)
(* get_size() unchanged, so get_size() is the number of distinct filenames *)
(* inserted and the length of list_files().                                *)
C3_BPSizeCountsDistinct ==
    (kind = "bpt" /\ Quiet) =>
        /\ bp.size = Cardinality(LogNames)
        /\ bp.size = Len(BPListFiles(bp, "asc"))

---------------------------------------------------------------------------
\* the insert calls that have returned
InsertsDone ==
    gen.inserts - budget
        - Cardinality({t \in Threads : th[t].op = "insert" /\ th[t].pc # "idle"})

\* how often record r occurs in the sequence s
Count(s, r) == Cardinality({i \in 1..Len(s) : s[i] = r})

\* between inserts: the size is the number of distinct filenames inserted and
\* the total length of the chains, and a filename has one entry, its latest
C4_SizeInv ==
    (kind = "hash" /\ Quiet) =>
        /\ ht.size = Cardinality(LogNames)
        /\ ht.size = SumLen(ht.buckets)
        /\ \A f \in LogNames : Count(Flatten(ht.buckets), Latest(f)) = 1

\* the step of an insert that stores record md: a stored filename keeps every
\* chain as long as it was and its entry where it was; a new one goes to the
\* end of its chain
C4_StoreStep ==
    \A t \in Threads :
        (kind = "hash" /\ th[t].pc = "store" /\ th'[t].pc # "store") =>
            LET md == th'[t].arg
                b  == Hash(md.filename, ht.capacity) + 1
                i  == BucketFind(ht.buckets[b], md.filename)
            IN /\ \A c \in (1..ht.capacity) \ {b} : ht'.buckets[c] = ht.buckets[c]
               /\ ht'.size = ht.size
               /\ IF i # 0
                  THEN /\ Len(ht'.buckets[b]) = Len(ht.buckets[b])
                       /\ ht'.buckets[b][i] = md
                       /\ \A j \in (1..Len(ht.buckets[b])) \ {i} :
                              ht'.buckets[b][j] = ht.buckets[b][j]
                       /\ th'[t].pc = "tag_lock"
                  ELSE /\ ht'.buckets[b] = Append(ht.buckets[b], md)
                       /\ th'[t].pc = "size_load"

(* C4: hash table: an insert of a stored filename replaces the record in   *)
(* place in its bucket and leaves size unchanged, an insert of a new       *)
(* filename appends it and adds one to size; so after any inserts (resizes *)
(* included) get_size() is the number of distinct filenames inserted and   *)
(* the total length of all bucket chains.                                  *)
C4_HashSizeCountsDistinct == [](C4_SizeInv) /\ [][C4_StoreStep]_vars

\* a table that has been resized twice and has seen an update of the first
\* entry of a chain of two
C4_Witness ==
    /\ kind = "hash" /\ Quiet
    /\ ht.capacity >= 4 * InitialCapacity
    /\ Cardinality(LogNames) < Len(log)
    /\ \E b \in 1..ht.capacity :
          /\ Len(ht.buckets[b]) = 2
          /\ ht.buckets[b][1].file_id > ht.buckets[b][2].file_id

(* C5: 2-3 tree: insert never looks for a stored filename, a re-insert     *)
(* adds a second occurrence; after n insert calls get_size() = n and       *)
(* list_files() has exactly n entries, one per insert call.                *)
C5_TTKeepsDuplicates ==
    (kind = "ttt" /\ Quiet) =>
        /\ tt.size = InsertsDone
        /\ Len(log) = InsertsDone
        /\ Len(TTListFiles(tt, "asc")) = InsertsDone
        /\ \A i \in 1..Len(log) : Count(TTListFiles(tt, "asc"), log[i]) = 1

\* a tree of two levels or more that holds one filename three times
C5_Witness ==
    /\ kind = "ttt" /\ Quiet
    /\ tt.height >= 2
    /\ \E f \in LogNames :
          Cardinality({i \in 1..Len(TTListFiles(tt, "asc")) :
                          TTListFiles(tt, "asc")[i].filename = f}) = 3

---------------------------------------------------------------------------
\* a step in which the root of the tree splits and a new root is installed:
\* a full 2-3 root gives way to a root of one key; the B+ tree's root changes
RootSplits ==
    IF kind = "ttt"
    THEN /\ tt.root # <<>> /\ tt'.root # <<>>
         /\ Len(tt.root[1].keys) = 2
         /\ Len(tt'.root[1].keys) = 1
    ELSE bp'.root # bp.root

C6_HeightStep ==
    kind \in {"ttt", "bpt"} =>
        /\ Height' >= Height
        /\ Height' # Height => RootSplits
        /\ RootSplits => Height' = Height + 1

(* C6: for both trees get_height() never decreases, and an insert changes  *)
(* it only when the root itself splits, and then by exactly 1; an insert   *)
(* that splits only non-root nodes, or nothing, leaves it unchanged.       *)
C6_HeightChangesOnlyOnRootSplit == [][C6_HeightStep]_vars

---------------------------------------------------------------------------
\* the insert that stored log[i] has appended it to the lists of its tags
Appended(i) ==
    \A t \in Threads :
        ~ /\ th[t].op = "insert"
          /\ th[t].arg = log[i]
          /\ th[t].pc \in {"size_load", "size_store", "resize", "tag_lock", "tags"}

\* tag is on a record that has been inserted
Attached(tag) == \E i \in 1..Len(log) : tag \in Range(log[i].tags)

(* C7: for every backend, after any inserts: search_by_tag(t) contains     *)
(* every inserted record that has t among its tags, and is empty for a tag *)
(* on no inserted record; after one record with tags ["work", "draft"],    *)
(* search_by_tag("work") and search_by_tag("draft") are exactly that       *)
(* record (and search_by_tag("archive") is empty).                         *)
C7_TagSearchComplete ==
    /\ \A t \in Threads :
          (th[t].op = "search_by_tag" /\ th[t].pc = "unlock") =>
              /\ th[t].ret = TagGet(tag_index, th[t].arg)
              /\ \A i \in 1..Len(log) :
                    (Appended(i) /\ th[t].arg \in Range(log[i].tags)) =>
                        Count(th[t].ret, log[i]) >= 1
              /\ ~Attached(th[t].arg) => th[t].ret = <<>>
    /\ \A i \in 1..Len(log) :
          Appended(i) =>
              \A tag \in Range(log[i].tags) : Count(TagGet(tag_index, tag), log[i]) >= 1
    /\ \A tag \in Tags : ~Attached(tag) => TagGet(tag_index, tag) = <<>>
    /\ (Len(log) = 1 /\ Appended(1) /\ log[1].tags = <<"work", "draft">>) =>
          /\ TagGet(tag_index, "work") = <<log[1]>>
          /\ TagGet(tag_index, "draft") = <<log[1]>>
          /\ TagGet(tag_index, "archive") = <<>>

\* one record with tags ["work", "draft"] is in, and a search for "draft"
\* has it as its result
C7_Witness ==
    /\ Len(log) = 1 /\ Appended(1) /\ log[1].tags = <<"work", "draft">>
    /\ \E t \in Threads :
          /\ th[t].op = "search_by_tag" /\ th[t].pc = "unlock"
          /\ th[t].arg = "draft"
          /\ th[t].ret = <<log[1]>>

---------------------------------------------------------------------------
\* the depths (edges from the root, which is at depth d) of the leaves under
\* a 2-3 node, and under node n of the B+ tree
RECURSIVE TTLeafDepths(_, _)
TTLeafDepths(node, d) ==
    IF TTIsLeaf(node) THEN {d}
    ELSE UNION {TTLeafDepths(node.children[i], d + 1) : i \in 1..Len(node.children)}

RECURSIVE BPLeafDepths(_, _, _)
BPLeafDepths(nodes, n, d) ==
    IF nodes[n].is_leaf THEN {d}
    ELSE UNION {BPLeafDepths(nodes, nodes[n].children[i], d + 1) :
                    i \in 1..Len(nodes[n].children)}

LeafDepths ==
    CASE kind = "ttt" -> IF tt.root = <<>> THEN {} ELSE TTLeafDepths(tt.root[1], 0)
      [] kind = "bpt" -> BPLeafDepths(bp.nodes, bp.root, 0)
      [] OTHER        -> {}

\* the records stored so far have pairwise distinct filenames
DistinctNames == Cardinality(LogNames) = Len(log)

(* C8: N records of pairwise distinct filenames inserted concurrently by K *)
(* threads into one structure of any backend: once all threads are done,   *)
(* get_size() = N, each of the N records is found by search_by_filename,   *)
(* list_files('asc') is sorted and has N entries, and in the trees every   *)
(* leaf lies at the depth the height counter records.                      *)
C8_ConcurrentInsertsConsistent ==
    (AllIdle /\ log # <<>> /\ DistinctNames) =>
        /\ Size = Len(log)
        /\ \A i \in 1..Len(log) : Search(log[i].filename) = <<log[i]>>
        /\ StrictlyIncreasing(ListFiles("asc"))
        /\ Len(ListFiles("asc")) = Len(log)
        /\ kind \in {"ttt", "bpt"} => LeafDepths = {Height}

---------------------------------------------------------------------------
\* thread t is inside a public method: past its entry, not yet returned
Inside(t) == th[t].pc \notin {"idle", "lock"}

(* C9: every public operation of every backend (insert,                    *)
(* search_by_filename, search_by_tag, list_files, get_size, get_height,    *)
(* get_stats) holds the primary lock from its first step to its last;      *)
(* insert holds the tag lock only while it appends to the tag lists and    *)
(* only while it holds the primary lock too.                               *)
C9_PrimaryLockHeldThroughout ==
    \A t \in Threads :
        /\ Inside(t) => lock.owner = t
        /\ (th[t].op = "insert" /\ tag_lock.owner = t) =>
              (th[t].pc = "tags" /\ lock.owner = t)

---------------------------------------------------------------------------
\* the lock thread t asks for next, "none" if it asks for none
Wanted(t) ==
    CASE th[t].pc = "lock"     -> Locks(th[t].op)[th[t].held + 1]
      [] th[t].pc = "tag_lock" -> "tag"
      [] OTHER                 -> "none"

\* thread t waits for a lock that another thread owns
Blocked(t) == Wanted(t) # "none" /\ ~CanAcquire(LockNamed(Wanted(t)), t)

(* C10: in every backend no thread asks for the primary lock while it      *)
(* holds the tag lock (the only nesting is primary, then tag), and so no   *)
(* interleaving of concurrent insert, search_by_filename, search_by_tag    *)
(* and list_files calls reaches a deadlock: while some call is under way,  *)
(* some thread inside a call can take its next step.                       *)
C10_LockOrderNoDeadlock ==
    /\ \A t \in Threads : Wanted(t) = "primary" => tag_lock.owner # t
    /\ \A t \in Threads :
          (tag_lock.owner = t /\ lock.owner # t) => Wanted(t) = "none"
    /\ (\E t \in Threads : th[t].pc # "idle") =>
          (\E t \in Threads : th[t].pc # "idle" /\ ~Blocked(t))

\* an insert that holds the primary lock waits for the tag lock, which a tag
\* search holds
C10_Witness ==
    \E t, u \in Threads :
        /\ th[t].op = "insert" /\ th[t].pc = "tag_lock" /\ lock.owner = t
        /\ Blocked(t)
        /\ th[u].op = "search_by_tag" /\ tag_lock.owner = u

---------------------------------------------------------------------------
\* the read methods that take the primary lock
PrimaryReads ==
    {"search_by_filename", "list_files", "get_size", "get_height",
     "get_capacity", "get_stats"}

\* what read method op returns for argument arg in the current state
ResultOf(op, arg) ==
    CASE op = "search_by_filename" -> Search(arg)
      [] op = "list_files"         -> ListFiles(arg)
      [] op = "get_size"           -> Size
      [] op = "get_height"         -> Height
      [] op = "get_capacity"       -> ht.capacity
      [] op = "get_stats"          -> IF kind = "hash" THEN HTStats(ht) ELSE BPStats(bp)
      [] OTHER                     -> <<>>

\* no insert is under way in another thread: the state is the one reached
\* by a whole number of completed inserts
NoInsertUnderWay(t) ==
    \A u \in Threads \ {t} : ~(th[u].op = "insert" /\ Inside(u))

\* the counters agree with the node graph or the buckets
CountersAgree ==
    /\ Size = Len(ListFiles("asc"))
    /\ kind = "hash" => ht.capacity = Len(ht.buckets)
    /\ kind \in {"ttt", "bpt"} => LeafDepths \subseteq {Height}

(* C11: a search_by_filename, list_files, get_size, get_height or          *)
(* get_stats call that runs while other threads insert never sees the      *)
(* middle of an insert, a split or a resize: its result is the result of   *)
(* the same call in the state after a whole number of completed inserts,   *)
(* and the size, height and capacity it reads agree with the node graph or *)
(* the buckets of that state.                                              *)
C11_ReadsSeeWholeInserts ==
    \A t \in Threads :
        (th[t].op \in PrimaryReads /\ Inside(t)) =>
            /\ NoInsertUnderWay(t)
            /\ th[t].pc = "unlock" => th[t].ret = ResultOf(th[t].op, th[t].arg)
            /\ CountersAgree

---------------------------------------------------------------------------
(* C12: for every backend, search_by_filename of a name never inserted     *)
(* returns the not-found value and does not raise, in every reachable      *)
(* state, the fresh empty structure included (a 2-3 tree without root, a   *)
(* B+ tree whose root is an empty leaf); search_by_tag of an unregistered  *)
(* tag returns an empty sequence and does not raise.                       *)
C12_NotFoundIsEmpty ==
    /\ \A f \in gen.names \ LogNames : Search(f) = <<>>
    /\ \A tag \in Tags \ DOMAIN tag_index : TagGet(tag_index, tag) = <<>>
    /\ \A t \in Threads :
          /\ (th[t].op = "search_by_filename" /\ th[t].pc = "unlock"
                /\ th[t].arg \notin LogNames) => th[t].ret = <<>>
          /\ (th[t].op = "search_by_tag" /\ th[t].pc = "unlock"
                /\ th[t].arg \notin DOMAIN tag_index) => th[t].ret = <<>>

\* a search in a structure that holds other names, in a bucket or a leaf
\* that is not empty, has come back with not-found
C12_Witness ==
    \E t \in Threads :
        /\ th[t].op = "search_by_filename" /\ th[t].pc = "unlock"
        /\ th[t].arg \notin LogNames
        /\ th[t].ret = <<>>
        /\ Cardinality(LogNames) >= 2
        /\ kind = "hash" => ht.buckets[Hash(th[t].arg, ht.capacity) + 1] # <<>>

\* the empty structures: a search by name and by tag has come back empty
C12_WitnessEmpty ==
    /\ log = <<>>
    /\ \E t, u \in Threads :
          /\ th[t].op = "search_by_filename" /\ th[t].pc = "unlock" /\ th[t].ret = <<>>
          /\ th[u].op = "search_by_tag" /\ th[u].pc = "unlock" /\ th[u].ret = <<>>

---------------------------------------------------------------------------
\* a step of a caller on the list it holds: the only step that leaves every
\* thread where it is
EditStep == th' = th

C13_SnapshotStep ==
    /\ \A t \in Threads :
          (kept[t] # <<>> /\ kept'[t] = kept[t]) =>
              Items(kept[t][1])' = Items(kept[t][1])
    /\ EditStep => tag_index' = tag_index

(* C13: the sequence search_by_tag returns is a snapshot: inserts after    *)
(* the call returned and changes the caller makes to the returned sequence *)
(* do not change each other; the sequence keeps the contents it had at     *)
(* return and the tag index is unaffected by edits to it.                  *)
C13_TagSearchSnapshot == [][C13_SnapshotStep]_vars

\* a caller holds a list of one record while the tag's list has grown to two,
\* and another caller has emptied its list while the tag's list has not
C13_Witness ==
    \E t, u \in Threads :
        /\ kept[t] # <<>> /\ kept[u] # <<>>
        /\ Len(Items(kept[t][1])) = 1
        /\ Len(TagGet(tag_index, kept[t][1].tag)) = 2
        /\ Items(kept[u][1]) = <<>>
        /\ TagGet(tag_index, kept[u][1].tag) # <<>>

---------------------------------------------------------------------------
\* the last step of an insert into the hash table before the tags: the load
\* check, and the resize if the load is exceeded
C14_ResizeStep ==
    \A t \in Threads :
        (kind = "hash" /\ th[t].pc = "resize" /\ th'[t].pc # "resize") =>
            IF HTOverloaded(ht)
            THEN /\ ht'.capacity = 2 * ht.capacity
                 /\ Len(ht'.buckets) = ht'.capacity
                 /\ \A f \in LogNames : Search(f)' = Search(f) /\ Search(f) # <<>>
            ELSE ht' = ht

\* the capacity changes in no other step of the call
C14_CapacityStep ==
    ht'.capacity # ht.capacity => \E t \in Threads : th[t].pc = "resize"

\* an insert is past its load check, or none is under way
PastResize ==
    \A t \in Threads :
        (th[t].op = "insert" /\ Inside(t)) => th[t].pc \in {"tag_lock", "tags", "unlock"}

(* C14: hash table: an insert that makes size / capacity exceed            *)
(* load_factor resizes within that same call; the capacity is then exactly *)
(* twice what it was before the call, and every record found by            *)
(* search_by_filename before the call, and the new one, is still found.    *)
C14_ResizeDoublesAndKeeps ==
    /\ [][C14_ResizeStep /\ C14_CapacityStep]_vars
    /\ []((kind = "hash" /\ PastResize) => ~HTOverloaded(ht))

\* the insert of a second name has just resized the table a second time
C14_Witness ==
    \E t \in Threads :
        /\ kind = "hash" /\ th[t].op = "insert" /\ th[t].pc = "tag_lock"
        /\ ht.capacity = 4 * InitialCapacity
        /\ Cardinality(LogNames) >= 2
        /\ th[t].tmp + 1 = ht.size

---------------------------------------------------------------------------
\* the records of log[i..] that carry the tag and have been appended to the
\* tag lists, in the order of their inserts
RECURSIVE LogWithTag(_, _)
LogWithTag(i, tag) ==
    IF i > Len(log) THEN <<>>
    ELSE (IF tag \in Range(log[i].tags) /\ Appended(i) THEN <<log[i]>> ELSE <<>>)
             \o LogWithTag(i + 1, tag)

IsPrefix(s, r) == Len(s) <= Len(r) /\ SubSeq(r, 1, Len(s)) = s

\* no step removes, replaces or reorders an entry of a tag's list
C15_AppendOnlyStep ==
    \A tag \in DOMAIN tag_index :
        /\ tag \in DOMAIN tag_index'
        /\ IsPrefix(tag_index[tag], tag_index'[tag])

(* C15: for every backend search_by_tag(t) is the sequence of all records  *)
(* inserted with t among their tags, in the order of the insert calls; no  *)
(* operation removes, replaces or reorders an entry, so after an update of *)
(* a filename the entries of the earlier version stay in the sequences of  *)
(* the tags it carried, also of tags the new version no longer has.        *)
C15_TagListIsInsertOrder ==
    /\ [](\A tag \in Tags : TagGet(tag_index, tag) = LogWithTag(1, tag))
    /\ [](\A t \in Threads :
             (th[t].op = "search_by_tag" /\ th[t].pc = "unlock") =>
                 th[t].ret = LogWithTag(1, th[t].arg))
    /\ [][C15_AppendOnlyStep]_vars

\* a filename tagged "work" and "draft" was updated to "draft" only: a search
\* for "work" has returned the earlier version, which a search by name no
\* longer finds
C15_Witness ==
    \E t \in Threads :
        /\ th[t].op = "search_by_tag" /\ th[t].pc = "unlock" /\ th[t].arg = "work"
        /\ Len(th[t].ret) = 1
        /\ Search(th[t].ret[1].filename) # <<>>
        /\ Search(th[t].ret[1].filename)[1].tags = <<"draft">>
        /\ Len(TagGet(tag_index, "draft")) >= 2

---------------------------------------------------------------------------
(* C16: for both trees, in every state reached by inserts, get_height() is *)
(* the number of edges on the path from the root to a leaf; a tree that is *)
(* a single leaf root has height 0.                                        *)
C16_HeightIsEdgeCount ==
    (kind \in {"ttt", "bpt"} /\ Quiet /\ log # <<>>) => LeafDepths = {Height}

---------------------------------------------------------------------------
\* the leaves under node n of the B+ tree, from left to right
RECURSIVE BPLeavesFrom(_, _, _)
BPLeaves(nodes, n) ==
    IF nodes[n].is_leaf THEN <<n>> ELSE BPLeavesFrom(nodes, n, 1)

BPLeavesFrom(nodes, n, i) ==
    IF i > Len(nodes[n].children) THEN <<>>
    ELSE BPLeaves(nodes, nodes[n].children[i]) \o BPLeavesFrom(nodes, n, i + 1)

\* the leaves the next pointers lead through from leaf n, at most fuel of them
RECURSIVE BPChainIds(_, _, _)
BPChainIds(nodes, n, fuel) ==
    IF n = 0 \/ fuel = 0 THEN <<>>
    ELSE <<n>> \o BPChainIds(nodes, nodes[n].next, fuel - 1)

\* the leaf chain of tree b: it ends (at a leaf whose next is None), it is
\* the leaves of the tree from left to right, each once, and its keys are
\* strictly ascending
BPChainIsLeaves(b) ==
    LET chain == BPChainIds(b.nodes, BPLeftmost(b.nodes, b.root), Len(b.nodes) + 1)
    IN /\ Len(chain) <= Len(b.nodes)
       /\ b.nodes[chain[Len(chain)]].next = 0
       /\ chain = BPLeaves(b.nodes, b.root)
       /\ Range(chain) = {n \in 1..Len(b.nodes) : b.nodes[n].is_leaf}
       /\ Cardinality(Range(chain)) = Len(chain)
       /\ StrictlyIncreasing(BPListFiles(b, "asc"))

\* tree b after inserts of records named i, i + 1, ..., n in this order
RECURSIVE BPInsertAscending(_, _, _)
BPInsertAscending(b, i, n) ==
    IF i > n THEN b
    ELSE BPInsertAscending(BPStore(b, FileMetadata(i, i, <<>>)), i + 1, n)

\* a tree of order 4 after f00, ..., f09 inserted in ascending order
TenAscending == BPInsertAscending(BPNew(4), 0, 9)

(* C17: B+ tree: after any inserts, the next pointers from the leftmost    *)
(* leaf (reached by first children) visit every leaf exactly once and end  *)
(* at a leaf whose next is None, and the keys of the visited leaves, put   *)
(* together, are the stored records in strictly ascending filename order;  *)
(* for order 4 and f00..f09 inserted ascending the chain is f00..f09 and   *)
(* get_height() >= 2.                                                      *)
C17_LeafChainComplete ==
    /\ (kind = "bpt" /\ Quiet) =>
          /\ BPChainIsLeaves(bp)
          /\ Range(BPListFiles(bp, "asc")) = {Latest(f) : f \in LogNames}
    /\ log = <<>> =>
          /\ BPChainIsLeaves(TenAscending)
          /\ [i \in 1..10 |-> BPListFiles(TenAscending, "asc")[i].filename]
                = [i \in 1..10 |-> i - 1]
          /\ Len(BPListFiles(TenAscending, "asc")) = 10
          /\ TenAscending.height >= 2

\* a tree of three leaves or more in which a leaf that had a successor was
\* split: the new leaf points to an older one
C17_Witness ==
    /\ kind = "bpt" /\ Quiet
    /\ Len(BPLeaves(bp.nodes, bp.root)) >= 3
    /\ \E n \in 1..Len(bp.nodes) :
          /\ bp.nodes[n].is_leaf
          /\ bp.nodes[n].next # 0
          /\ bp.nodes[n].next < n

---------------------------------------------------------------------------
\* every node holds at most order - 1 keys, and an internal node has one
\* child more than keys
BPNodesWithinOrder(b) ==
    \A n \in 1..Len(b.nodes) :
        /\ Len(b.nodes[n].keys) <= b.order - 1
        /\ ~b.nodes[n].is_leaf => Len(b.nodes[n].children) = Len(b.nodes[n].keys) + 1
        /\ b.nodes[n].is_leaf => b.nodes[n].children = <<>>

\* the store of a filename that is stored already splits nothing
C18_UpdateStep ==
    \A t \in Threads :
        (kind = "bpt" /\ th[t].pc = "store" /\ th'[t].pc # "store"
            /\ th'[t].arg.filename \in LogNames) =>
                /\ Len(bp'.nodes) = Len(bp.nodes)
                /\ bp'.root = bp.root
                /\ bp'.height = bp.height
                /\ \A n \in 1..Len(bp.nodes) :
                      /\ Len(bp'.nodes[n].keys) = Len(bp.nodes[n].keys)
                      /\ bp'.nodes[n].children = bp.nodes[n].children

(* C18: B+ tree of order m >= 3: after every completed insert each leaf    *)
(* and each internal node holds at most m - 1 keys, each internal node has *)
(* exactly len(keys) + 1 children, and a key-preserving update never       *)
(* triggers a split.                                                       *)
C18_NodesWithinOrder ==
    /\ []((kind = "bpt" /\ Quiet) => BPNodesWithinOrder(bp))
    /\ [][C18_UpdateStep]_vars

\* a tree whose root is an internal node with as many keys as the order
\* allows and whose leaves include a full one, after an update
C18_Witness ==
    /\ kind = "bpt" /\ Quiet
    /\ ~bp.nodes[bp.root].is_leaf
    /\ Len(bp.nodes[bp.root].keys) = bp.order - 1
    /\ \E n \in 1..Len(bp.nodes) :
          bp.nodes[n].is_leaf /\ Len(bp.nodes[n].keys) = bp.order - 1
    /\ Cardinality(LogNames) < Len(log)

---------------------------------------------------------------------------
\* the filenames stored in the leaves under node n
RECURSIVE BPNamesUnder(_, _)
BPNamesUnder(nodes, n) ==
    IF nodes[n].is_leaf THEN {nodes[n].keys[i].filename : i \in 1..Len(nodes[n].keys)}
    ELSE UNION {BPNamesUnder(nodes, nodes[n].children[i]) :
                    i \in 1..Len(nodes[n].children)}

BPInternal(b) == {n \in 1..Len(b.nodes) : ~b.nodes[n].is_leaf}

BPLeafNodes(b) == {n \in 1..Len(b.nodes) : b.nodes[n].is_leaf}

\* records are in leaves only: the keys of a leaf are records, those of an
\* internal node are filenames
BPRecordsInLeaves(b) ==
    /\ \A n \in BPInternal(b) :
          \A i \in 1..Len(b.nodes[n].keys) : b.nodes[n].keys[i] \in gen.names
    /\ \A n \in BPLeafNodes(b) :
          \A i \in 1..Len(b.nodes[n].keys) : b.nodes[n].keys[i] \in Range(log)

\* a pushed-up key is kept in no half of an internal split: no separator is
\* in two places
BPSeparatorsOnce(b) ==
    \A n, m \in BPInternal(b) :
        \A i \in 1..Len(b.nodes[n].keys), j \in 1..Len(b.nodes[m].keys) :
            b.nodes[n].keys[i] = b.nodes[m].keys[j] => (n = m /\ i = j)

\* under child i: every filename is < key i and >= key i-1; a separator is
\* the first filename of what lies to its right (a leaf split copies it up)
BPSeparatorsOrdered(b) ==
    \A n \in BPInternal(b) :
        LET keys == b.nodes[n].keys
            children == b.nodes[n].children
        IN \A i \in 1..Len(children) :
              LET under == BPNamesUnder(b.nodes, children[i])
              IN /\ i <= Len(keys) => \A f \in under : f < keys[i]
                 /\ i >= 2 => /\ \A f \in under : f >= keys[i - 1]
                              /\ keys[i - 1] \in under

\* the descent for a stored filename ends at the one leaf that holds it
BPDescentFinds(b) ==
    \A f \in LogNames :
        {n \in BPLeafNodes(b) :
            \E i \in 1..Len(b.nodes[n].keys) : b.nodes[n].keys[i].filename = f}
          = {BPFindLeaf(b.nodes, b.root, f)}

(* C19: B+ tree: after any inserts the records are in leaves only, all     *)
(* leaves are at one depth, and under child ci of an internal node with    *)
(* keys [k0..kn] every filename is < ki and >= k(i-1), so that the descent *)
(* of search_by_filename and insert reaches the one leaf that holds (or    *)
(* would hold) the filename; a leaf split keeps the pushed-up separator as *)
(* the first key of the right leaf, an internal split removes the          *)
(* pushed-up key from both halves.                                         *)
C19_BPSeparatorsOrdered ==
    (kind = "bpt" /\ Quiet) =>
        /\ BPRecordsInLeaves(bp)
        /\ BPSeparatorsOnce(bp)
        /\ Cardinality(LeafDepths) = 1
        /\ BPSeparatorsOrdered(bp)
        /\ BPDescentFinds(bp)

\* a tree of three levels: leaves and an internal node have been split
C19_Witness ==
    /\ kind = "bpt" /\ Quiet
    /\ LeafDepths = {2}
    /\ Cardinality(BPInternal(bp)) >= 3

---------------------------------------------------------------------------
\* how often node n is among the children of node p
BPChildCount(b, p, n) ==
    Cardinality({i \in 1..Len(b.nodes[p].children) : b.nodes[p].children[i] = n})

(* C20: B+ tree: after every completed insert the root's parent is None    *)
(* and the parent of every other node n is the internal node whose         *)
(* children contain n, exactly once; also for the children an internal     *)
(* split moved to the new right node, and for a new leaf whose parent      *)
(* splits in the same insert.                                              *)
C20_BPParentsMatchChildren ==
    (kind = "bpt" /\ Quiet) =>
        /\ bp.nodes[bp.root].parent = 0
        /\ \A n \in (1..Len(bp.nodes)) \ {bp.root} :
              /\ bp.nodes[n].parent \in BPInternal(bp)
              /\ BPChildCount(bp, bp.nodes[n].parent, n) = 1
              /\ \A p \in BPInternal(bp) \ {bp.nodes[n].parent} :
                    BPChildCount(bp, p, n) = 0

\* a leaf split made its parent split: the new leaf (the node made just
\* before the new right node) is a child of the new right node
C20_Witness ==
    /\ kind = "bpt" /\ Quiet
    /\ \E n \in BPLeafNodes(bp) :
          /\ (n + 1) \in BPInternal(bp)
          /\ (n + 1) # bp.root
          /\ bp.nodes[n].parent = n + 1
          /\ BPChildCount(bp, n + 1, n) = 1


---------------------------------------------------------------------------
\* every node under (and including) a 2-3 node has 1 key and 0 or 2 children,
\* or 2 keys and 0 or 3 children
RECURSIVE TTShape(_)
TTShape(node) ==
    /\ Len(node.keys) \in {1, 2}
    /\ Len(node.children) \in {0, Len(node.keys) + 1}
    /\ \A i \in 1..Len(node.children) : TTShape(node.children[i])

(* C21: 2-3 tree: after every completed insert (any sequence, duplicates   *)
(* included) every node has 1 key and 0 or 2 children, or 2 keys and 0 or  *)
(* 3 children, and all leaves are at the same depth.                       *)
C21_TTNodeShape ==
    (kind = "ttt" /\ tt.root # <<>>) =>
        /\ TTShape(tt.root[1])
        /\ Cardinality(TTLeafDepths(tt.root[1], 0)) = 1

\* the root has split twice (a leaf split that made the root split in turn),
\* in a run that stored some filename more than once
C21_Witness ==
    /\ kind = "ttt" /\ Quiet /\ tt.root # <<>>
    /\ TTLeafDepths(tt.root[1], 0) = {2}
    /\ Cardinality(LogNames) < Len(log)
    /\ TTShape(tt.root[1])


---------------------------------------------------------------------------
\* the filenames stored under (and in) a 2-3 node
TTNamesUnder(node) == {TTInorder(node)[i].filename : i \in 1..Len(TTInorder(node))}

\* in every internal node under (and including) node, what child i holds lies
\* between keys i-1 and i
RECURSIVE TTOrdered(_)
TTOrdered(node) ==
    \A i \in 1..Len(node.children) :
        /\ \A f \in TTNamesUnder(node.children[i]) :
              /\ i > 1 => node.keys[i - 1].filename <= f
              /\ i <= Len(node.keys) => f <= node.keys[i].filename
        /\ TTOrdered(node.children[i])

\* on the path an insert of md takes below node: wherever a child hands up a
\* carrier, the position _insert_into_internal finds for its middle key is
\* the index of that child
RECURSIVE TTAbsorbsAtChild(_, _)
TTAbsorbsAtChild(node, md) ==
    TTIsLeaf(node) \/
        LET child_index == TTFindChildIndex(node, md)
            r == TTInsertHelper(node.children[child_index], md)
        IN /\ TTAbsorbsAtChild(node.children[child_index], md)
           /\ r.up # <<>> =>
                 LET i == FirstGreater(node.keys, r.up[1].keys[1].filename)
                 IN (IF i # 0 THEN i ELSE Len(node.keys) + 1) = child_index

C22_OrderInv ==
    (kind = "ttt" /\ tt.root # <<>>) =>
        /\ TTOrdered(tt.root[1])
        /\ NonDecreasing(TTListFiles(tt, "asc"))

C22_AbsorbStep ==
    (kind = "ttt" /\ tt.root # <<>> /\ Len(log') = Len(log) + 1) =>
        TTAbsorbsAtChild(tt.root[1], log'[Len(log')])

(* C22: 2-3 tree: after any sequence of inserts, in every internal node    *)
(* the keys stored under child i lie between the node's keys i-1 and i, a  *)
(* promoted middle key is absorbed at the index of the child that was      *)
(* descended into, and the in-order traversal is non-decreasing.           *)
C22_TTOrdered == []C22_OrderInv /\ [][C22_AbsorbStep]_vars

\* both root keys came up from leaf splits and carry one filename, and the
\* first leaf took a smaller record afterwards
C22_Witness ==
    /\ kind = "ttt" /\ Quiet /\ tt.root # <<>>
    /\ Len(tt.root[1].keys) = 2 /\ Len(tt.root[1].children) = 3
    /\ tt.root[1].keys[1].filename = tt.root[1].keys[2].filename
    /\ Len(tt.root[1].children[1].keys) = 2
    /\ TTOrdered(tt.root[1])


---------------------------------------------------------------------------
\* the insert calls that stored filename f with the tag in their tag list
InsertsWithTag(f, tag) ==
    {i \in 1..Len(log) : log[i].filename = f /\ tag \in Range(log[i].tags)}

\* in the sequence s of a tag: the record of one insert call occurs at most
\* once, and a filename occurs more than once only if it was inserted more
\* than once with the tag
OncePerInsert(s, tag) ==
    /\ \A i \in 1..Len(log) : Count(s, log[i]) <= 1
    /\ \A f \in gen.names :
          Cardinality({j \in 1..Len(s) : s[j].filename = f}) > 1 =>
              Cardinality(InsertsWithTag(f, tag)) > 1

(* C23: for every backend a record appears more than once in the sequence  *)
(* search_by_tag(t) returns only if it was inserted more than once with    *)
(* tag t; one insert call contributes at most one entry to the sequence of *)
(* any one tag.                                                            *)
C23_TagDuplicatesOnlyByReinsert ==
    /\ \A tag \in Tags : OncePerInsert(TagGet(tag_index, tag), tag)
    /\ \A t \in Threads :
          (th[t].op = "search_by_tag" /\ th[t].pc = "unlock") =>
              OncePerInsert(th[t].ret, th[t].arg)


---------------------------------------------------------------------------
\* the capacity changes only in the load check of an insert that appended a
\* new filename and whose new size is strictly more than load_factor times
\* the capacity; it never gets smaller
C24_ResizeStep ==
    /\ ht'.capacity >= ht.capacity
    /\ ht'.capacity # ht.capacity =>
          \E t \in Threads :
              /\ th[t].op = "insert" /\ th[t].pc = "resize"
              /\ ht.size = th[t].tmp + 1
              /\ ht.size * ht.load_factor[2] > ht.load_factor[1] * ht.capacity

\* a key-preserving update goes from the store straight to the tag index and
\* leaves size and capacity alone
C24_UpdateStep ==
    \A t \in Threads :
        (kind = "hash" /\ th[t].pc = "store" /\ th'[t].pc = "tag_lock") =>
            /\ ht'.capacity = ht.capacity
            /\ ht'.size = ht.size
            /\ Len(ht'.buckets) = Len(ht.buckets)

(* C24: hash table: after every completed insert size / capacity is at     *)
(* most load_factor; an insert resizes only when its new size is strictly  *)
(* more than load_factor * capacity (not when it equals it, and never on a *)
(* key-preserving update); the capacity never decreases.                   *)
C24_LoadFactorKept ==
    /\ []((kind = "hash" /\ PastResize) =>
             ht.size * ht.load_factor[2] <= ht.load_factor[1] * ht.capacity)
    /\ [][C24_ResizeStep /\ C24_UpdateStep]_vars

\* size / capacity is exactly load_factor (3 of 4) and was left so by the
\* load check of the third new filename; the insert under way is an update
\* of a stored filename, past its store
C24_Witness ==
    \E t \in Threads :
        /\ kind = "hash"
        /\ th[t].op = "insert" /\ th[t].pc = "tag_lock" /\ th[t].tmp = 0
        /\ ht.size * ht.load_factor[2] = ht.load_factor[1] * ht.capacity
        /\ ht.size = 3 /\ Len(log) = 4


---------------------------------------------------------------------------
\* the table has capacity buckets, every entry sits in the bucket its
\* filename hashes to under the current capacity, and no filename has more
\* than one entry over all chains
HTPlaced(h) ==
    /\ Len(h.buckets) = h.capacity
    /\ \A b \in 1..Len(h.buckets) : \A i \in 1..Len(h.buckets[b]) :
          Hash(h.buckets[b][i].filename, h.capacity) + 1 = b
    /\ \A f \in gen.names :
          Cardinality({i \in 1..Len(Flatten(h.buckets)) :
                          Flatten(h.buckets)[i].filename = f}) <= 1

(* C25: hash table: in every state observable between operations the      *)
(* bucket array has exactly capacity buckets, each stored record sits in   *)
(* the bucket with index hash(filename) mod capacity for the current       *)
(* capacity, and no filename has more than one chain entry; also after a   *)
(* resize, and after a resize that was triggered while a resize rehashes.  *)
C25_BucketsPlaced == kind = "hash" => HTPlaced(ht)

\* the first insert resized three times in one call (the rehash of its one
\* record resized again), later inserts resized twice more, and two of the
\* three filenames share a chain
C25_Witness ==
    /\ kind = "hash" /\ Quiet
    /\ ht.capacity = 32 * InitialCapacity /\ ht.size = 3
    /\ \E b \in 1..Len(ht.buckets) : Len(ht.buckets[b]) = 2
    /\ \E b \in 2..Len(ht.buckets) : Len(ht.buckets[b]) = 1
    /\ HTPlaced(ht)


---------------------------------------------------------------------------
\* the filenames that have an entry in some tag's list
TaggedNames ==
    UNION {{tag_index[tag][i].filename : i \in 1..Len(tag_index[tag])} :
               tag \in DOMAIN tag_index}

\* every record in a tag's list, and every record a search_by_tag holds as
\* its result, has its filename stored in the primary structure; and a
\* search_by_filename for such a filename has found a record of that name
C26_TaggedIsStored ==
    /\ \A f \in TaggedNames : Search(f) # <<>> /\ Search(f)[1].filename = f
    /\ \A t \in Threads :
          (th[t].op = "search_by_tag" /\ th[t].pc = "unlock") =>
              /\ IsPrefix(th[t].ret, TagGet(tag_index, th[t].arg))
              /\ \A i \in 1..Len(th[t].ret) : Search(th[t].ret[i].filename) # <<>>
    /\ \A t \in Threads :
          (th[t].op = "search_by_filename" /\ th[t].pc = "unlock"
               /\ th[t].arg \in TaggedNames) =>
              th[t].ret # <<>> /\ th[t].ret[1].filename = th[t].arg

\* a record enters the tag index only in a step of the insert that stored
\* it, which holds the primary lock before and after that step; entries stay
C26_VisibleStep ==
    tag_index' # tag_index =>
        /\ C15_AppendOnlyStep
        /\ \E t \in Threads :
              /\ th[t].op = "insert" /\ th[t].pc = "tags"
              /\ lock.owner = t /\ lock'.owner = t
              /\ Search(th[t].arg.filename) # <<>>
              /\ Count(log, th[t].arg) = 1
              /\ \A tag \in DOMAIN tag_index' :
                    \A i \in (Len(TagGet(tag_index, tag)) + 1)..Len(tag_index'[tag]) :
                        tag_index'[tag][i] = th[t].arg

(* C26: in every backend under concurrent use, once search_by_tag(t) has   *)
(* returned a record r, every later search_by_filename(r.filename) finds a *)
(* record with that filename: a record becomes visible in the tag index    *)
(* only after it is stored in the primary structure and while the          *)
(* inserting thread still holds the primary lock.                          *)
C26_TagVisibleAfterStored == []C26_TaggedIsStored /\ [][C26_VisibleStep]_vars

\* a search by tag holds a record as its result, and a search by name for
\* that record's filename has found a record of that name, here a later
\* version of it
C26_Witness ==
    \E t, u \in Threads :
        /\ th[t].op = "search_by_tag" /\ th[t].pc = "unlock" /\ th[t].ret # <<>>
        /\ th[u].op = "search_by_filename" /\ th[u].pc = "unlock"
        /\ th[u].arg = th[t].ret[1].filename
        /\ th[u].ret # <<>>
        /\ th[u].ret[1].filename = th[u].arg
        /\ th[u].ret[1] # th[t].ret[1]


---------------------------------------------------------------------------
ReadOps == {"search_by_filename", "search_by_tag", "list_files", "get_size",
            "get_height", "get_capacity", "get_stats"}

\* a step of a read method (its call, taking its locks, its body, its return)
ReadStepOf(t) == th'[t] # th[t] /\ (th[t].op \in ReadOps \/ th'[t].op \in ReadOps)

\* no step of a read method changes the buckets or node graph, size, height,
\* capacity or the tag index; a search for a tag the index does not have
\* returns [] and leaves the tag without an entry; a descending listing
\* leaves the ascending one as it was
C27_ReadStep ==
    \A t \in Threads :
        ReadStepOf(t) =>
            /\ ht' = ht /\ tt' = tt /\ bp' = bp
            /\ tag_index' = tag_index
            /\ Size' = Size /\ Height' = Height
            /\ log' = log
            /\ (th[t].op = "search_by_tag" /\ th[t].pc = "body"
                    /\ th'[t].arg \notin DOMAIN tag_index) =>
                  th'[t].ret = <<>> /\ th'[t].arg \notin DOMAIN tag_index'
            /\ (th[t].op = "list_files" /\ th[t].pc = "body") =>
                  /\ ListFiles("asc")' = ListFiles("asc")
                  /\ th'[t].arg = "desc" => th'[t].ret = Reverse(ListFiles("asc")')

(* C27: in every backend the read operations search_by_filename,           *)
(* search_by_tag, list_files, get_size, get_height and get_stats leave the *)
(* node graph / buckets, size, height, capacity and the tag index          *)
(* unchanged; search_by_tag on an unregistered tag creates no entry for    *)
(* it, and list_files('desc') reorders no stored leaf or bucket.           *)
C27_ReadsChangeNothing == [][C27_ReadStep]_vars

\* a search for a tag no record carries has returned [] and the tag has no
\* entry, while other tags have; and a descending listing of two or more
\* records has been made
C27_Witness ==
    \E t, u \in Threads :
        /\ th[t].op = "search_by_tag" /\ th[t].pc = "unlock"
        /\ th[t].arg \notin DOMAIN tag_index /\ th[t].ret = <<>>
        /\ DOMAIN tag_index # {}
        /\ th[u].op = "list_files" /\ th[u].pc = "unlock" /\ th[u].arg = "desc"
        /\ Len(th[u].ret) >= 2
        /\ ListFiles("asc") = Reverse(th[u].ret)


---------------------------------------------------------------------------
(* Termination.  The callers of the repository (insert_worker,             *)
(* search_worker, the benchmark's threads) each make finitely many calls,  *)
(* and a thread that can take its next step is eventually scheduled.       *)

FairNames == 1
FairCalls == 3

\* threads share one structure and make FairCalls calls in all, of any method
InitFair ==
    /\ kind \in Kinds
    /\ Start(Threads, 1..FairNames, {<<"draft">>},
             IF kind = "hash" THEN SomeHashes(1..FairNames) ELSE NoHashes(1..FairNames),
             {Order}, {DefaultLoad}, FairCalls, FALSE, {"insert"} \cup ReadOps)

\* the steps of thread t inside a call: taking a lock, the body, the return
ThreadStep(t) ==
    \/ EnterLock(t)
    \/ InsertStore(t)
    \/ InsertSizeLoad(t)
    \/ InsertSizeStore(t)
    \/ InsertResize(t)
    \/ InsertTagLock(t)
    \/ InsertTags(t)
    \/ LeaveLocks(t)
    \/ SearchByFilename(t)
    \/ SearchByTag(t)
    \/ ListFilesBody(t)
    \/ GetSize(t)
    \/ GetHeight(t)
    \/ GetCapacity(t)
    \/ GetStats(t)

Fairness == \A t \in Threads : WF_vars(ThreadStep(t))

SpecFair == InitFair /\ [][Next]_vars /\ Fairness

\* thread t is between calls and owns no lock
Returned(t) == th[t].pc = "idle" /\ lock.owner # t /\ tag_lock.owner # t

(* C28: every invoked operation eventually completes: under fair           *)
(* scheduling of the threads every insert, search_by_filename,             *)
(* search_by_tag and list_files call (and every other call) started on a   *)
(* shared structure eventually returns and has released every lock it took *)
C28_CallsReturn ==
    /\ \A t \in Threads : [](th[t].pc = "idle" => Returned(t))
    /\ \A t \in Threads : (th[t].pc # "idle") ~> Returned(t)

\* a call waits for the primary lock, which another thread's insert owns
\* and is still working under
C28_Witness ==
    \E t, u \in Threads :
        /\ t # u
        /\ Blocked(t) /\ Wanted(t) = "primary"
        /\ lock.owner = u /\ th[u].op = "insert"
        /\ th[u].pc \in {"store", "size_load", "size_store", "resize", "tag_lock", "tags"}

=============================================================================
